---- MODULE Spec2Model ----
(***************************************************************************)
(* Plan-and-solve agent (code/chapter4/Plan_and_solve.py): a Planner that  *)
(* turns one engine completion into a list of steps, an Executor that      *)
(* works through the steps with a bounded tool-resolution loop, and the    *)
(* PlanAndSolveAgent that runs the one after the other.                    *)
(*                                                                         *)
(* Texts are TLA+ strings; where the code looks inside a text (split,      *)
(* strip) the text is a sequence of chunks.  History, which the code keeps *)
(* as one string grown by +=, is the sequence of the pieces appended.      *)
(***************************************************************************)
EXTENDS Naturals, Sequences, FiniteSets, TLC

\* ------------------------------------------------------------------ bounds

\* Longest plan handed to Executor.execute.
MaxPlanLen == 2

\* Largest max_tool_iterations given to a directly constructed Executor.
MaxIter == 2

\* Most completions of one run that are tool requests.
MaxToolRequests == 3

\* Executor.__init__'s default for max_tool_iterations.
DefaultMaxToolIterations == 5

\* ------------------------------------------------------------ text helpers

Whitespace == {" ", "\n"}

RECURSIVE Join(_)
Join(chunks) == IF chunks = <<>> THEN "" ELSE Head(chunks) \o Join(Tail(chunks))

RECURSIVE LStrip(_)
LStrip(chunks) ==
    IF chunks # <<>> /\ Head(chunks) \in Whitespace THEN LStrip(Tail(chunks)) ELSE chunks

RECURSIVE RStrip(_)
RStrip(chunks) ==
    IF chunks # <<>> /\ chunks[Len(chunks)] \in Whitespace
    THEN RStrip(SubSeq(chunks, 1, Len(chunks) - 1))
    ELSE chunks

\* str.strip()
Strip(chunks) == RStrip(LStrip(chunks))

\* ------------------------------------------------------- parsed Python data

StrV(chunks) == [type |-> "str", s |-> chunks]
IntV(repr) == [type |-> "int", repr |-> repr]
DictV(d) == [type |-> "dict", d |-> d]
ListV(items) == [type |-> "list", items |-> items]
NoV == [type |-> "none"]

\* str(value), as chunks
PyStr(v) == IF v.type = "str" THEN v.s ELSE IF v.type = "int" THEN <<v.repr>> ELSE <<"None">>

Ok(v) == [exc |-> "", val |-> v]
Raise(e) == [exc |-> e, val |-> NoV]

\* ------------------------------------------------- the executor's completions

T_ANSWER == "ANSWER"
T_NUMBER == "42"
T_SEARCH == "{\"tool\": \" Search \", \"input\": \"X\"}"
T_FOO == "{'tool': 'Foo', 'input': 'Y'}"
T_NOINPUT == "{\"tool\": \"Search\"}"
T_NOTOOL == "{\"input\": \"X\"}"
T_BLANK == "{\"tool\": \"  \", \"input\": \"X\"}"
T_UNHASHABLE == "{[1]: 2}"

\* Stands for think returning nothing.
T_ABSENT == "<absent>"

ExecutorTexts ==
    {T_ABSENT, "", T_ANSWER, T_NUMBER, T_SEARCH, T_FOO, T_NOINPUT, T_NOTOOL, T_BLANK, T_UNHASHABLE}

\* json.loads(text)
JsonLoads(text) ==
    CASE text = T_SEARCH ->
            Ok(DictV([tool |-> StrV(<<" ", "Search", " ">>), input |-> StrV(<<"X">>)]))
      [] text = T_NOINPUT -> Ok(DictV([tool |-> StrV(<<"Search">>)]))
      [] text = T_NOTOOL -> Ok(DictV([input |-> StrV(<<"X">>)]))
      [] text = T_BLANK -> Ok(DictV([tool |-> StrV(<<" ", " ">>), input |-> StrV(<<"X">>)]))
      [] text = T_NUMBER -> Ok(IntV("42"))
      [] OTHER -> Raise("JSONDecodeError")

\* ast.literal_eval(text), for the texts json.loads rejects
LiteralEval(text) ==
    CASE text = T_FOO ->
            Ok(DictV([tool |-> StrV(<<"Foo">>), input |-> StrV(<<"Y">>)]))
      [] text = T_UNHASHABLE -> Raise("TypeError")
      [] text = T_ANSWER -> Raise("ValueError")
      [] OTHER -> Raise("SyntaxError")

\* A request, or none, or the exception that left _parse_tool_request.
NoRequest == [exc |-> "", some |-> FALSE, tool |-> "", input |-> ""]
Request(tool_name, tool_input) ==
    [exc |-> "", some |-> TRUE, tool |-> tool_name, input |-> tool_input]
Propagate(e) == [exc |-> e, some |-> FALSE, tool |-> "", input |-> ""]

\* Executor._parse_tool_request, from "if isinstance(data, dict) ..." on
AcceptRequest(data) ==
    IF data.type = "dict" /\ "tool" \in DOMAIN data.d /\ "input" \in DOMAIN data.d
    THEN LET tool_name == Join(Strip(PyStr(data.d.tool)))
             tool_input == Join(PyStr(data.d.input))
         IN  IF tool_name # "" THEN Request(tool_name, tool_input) ELSE NoRequest
    ELSE NoRequest

\* The handlers of _parse_tool_request: json.JSONDecodeError around json.loads,
\* (ValueError, SyntaxError) around ast.literal_eval; anything else leaves the method.
LiteralEvalCaught == {"ValueError", "SyntaxError"}

\* Executor._parse_tool_request
ParseToolRequest(response_text) ==
    IF response_text = "" THEN NoRequest
    ELSE LET j == JsonLoads(response_text) IN
         IF j.exc = "" THEN AcceptRequest(j.val)
         ELSE IF j.exc # "JSONDecodeError" THEN Propagate(j.exc)
         ELSE LET l == LiteralEval(response_text) IN
              IF l.exc = "" THEN AcceptRequest(l.val)
              ELSE IF l.exc \in LiteralEvalCaught THEN NoRequest
              ELSE Propagate(l.exc)

\* ------------------------------------------------------------- the engine

\* HelloAgentsLLM.think: a text, or nothing.
Absent == [absent |-> TRUE, text |-> "", chunks |-> <<>>]
Completion(chunks) == [absent |-> FALSE, text |-> Join(chunks), chunks |-> chunks]

\* The completion without the "or": nothing becomes the text None.
OrEmptyMissing(response) == IF response.absent THEN <<"None">> ELSE response.chunks

\* think(...) or ""
OrEmpty(response) == IF response.absent \/ response.chunks = <<>> THEN <<>> ELSE response.chunks

\* What an engine with the texts of `texts` answers to a step's conversation.
Responses(texts) ==
    {IF t = T_ABSENT THEN Absent ELSE Completion(IF t = "" THEN <<>> ELSE <<t>>) : t \in texts}

\* The engines of the runs explored: each answers a step with a final answer, a
\* request for the Search tool, the text _parse_tool_request chokes on, and one
\* more of the texts: the request for Foo, or one that is no request.
CoreTexts == {T_ANSWER, T_SEARCH, T_UNHASHABLE}
Repertoires == {CoreTexts \cup {t} : t \in ExecutorTexts \ CoreTexts}

\* ------------------------------------------------------------- the planner

StepPool == <<"Do A", "Do B", "Do C", "Do D">>
Plans == {SubSeq(StepPool, 1, n) : n \in 0..MaxPlanLen}

RECURSIVE Items(_)
Items(plan) ==
    IF plan = <<>> THEN ""
    ELSE "\"" \o Head(plan) \o "\"" \o (IF Len(plan) > 1 THEN ", " ELSE "") \o Items(Tail(plan))

\* The list literal the planner prompt asks for, e.g. ["Do A", "Do B"]
ListLiteral(plan) == "[" \o Items(plan) \o "]"

\* The fence markers of the planner prompt: three backquotes, with and without "python".
FenceOpen == "<fence>python"
Fence == "<fence>"

\* A step whose text quotes a command between fence markers, and the list literal
\* of the plan made of that step alone, cut where the markers are.
FenceStep == "Run " \o Fence \o "ls" \o Fence
FencePlan == <<FenceStep>>
FenceLiteral == <<"[\"Run ", Fence, "ls", Fence, "\"]">>

\* The plans the list literals of the responses stand for.
LiteralPlans == Plans \cup {FencePlan}

P_STRING == "\"Do A\""
P_MALFORMED == "[\"Do A\","
P_PROSE == "First do A, then do B."

\* A response with the fenced block the prompt asks for, between some prose.
FencedBlock(body) ==
    <<"Plan:", "\n", FenceOpen, "\n">> \o body \o <<"\n", Fence, "\n", "Good luck.">>
Fenced(body) == FencedBlock(<<body>>)

PlannerResponses ==
    {Absent, Completion(<<>>), Completion(<<P_PROSE>>)}
    \cup {Completion(Fenced(ListLiteral(p))) : p \in Plans}
    \cup {Completion(Fenced(b)) : b \in {P_STRING, P_MALFORMED, T_UNHASHABLE}}
    \cup {Completion(FencedBlock(FenceLiteral))}
    \cup {Completion(<<FenceOpen, "\n", ListLiteral(<<StepPool[1]>>), "\n">>),
          Completion(<<Fence, ListLiteral(<<StepPool[1]>>), Fence>>)}

\* str.split(sep), a separator being a chunk of its own
RECURSIVE Split(_, _)
Split(chunks, sep) ==
    IF chunks = <<>> THEN << <<>> >>
    ELSE LET rest == Split(Tail(chunks), sep) IN
         IF Head(chunks) = sep THEN << <<>> >> \o rest
         ELSE << <<Head(chunks)>> \o Head(rest) >> \o Tail(rest)

\* ast.literal_eval(plan_str)
PlanLiteralEval(text) ==
    IF \E p \in LiteralPlans : ListLiteral(p) = text
    THEN Ok(ListV(CHOOSE p \in LiteralPlans : ListLiteral(p) = text))
    ELSE CASE text = P_STRING -> Ok(StrV(<<"Do A">>))
           [] text = T_UNHASHABLE -> Raise("TypeError")
           [] text = P_PROSE -> Raise("SyntaxError")
           [] OTHER -> Raise("SyntaxError")

\* What Planner.plan hands to run: a plan, or the exception that left it.
PlanReturned(p) == [exc |-> "", plan |-> p]
PlanRaised(e) == [exc |-> e, plan |-> <<>>]

\* The exceptions that are instances of Exception: all that are raised here.
Exceptions ==
    {"ValueError", "SyntaxError", "IndexError", "TypeError", "JSONDecodeError", "ToolError"}

\* The handlers of Planner.plan without the second one.
PlannerCaughtNamed(e) == e \in {"ValueError", "SyntaxError", "IndexError"}

\* The handlers of Planner.plan: (ValueError, SyntaxError, IndexError), then Exception.
PlannerCaught(e) == e \in {"ValueError", "SyntaxError", "IndexError"} \/ e \in Exceptions

\* The body of the try of Planner.plan: the plan parsed out of response_text, or
\* the exception raised on the way.
TryParsePlan(response_text) ==
    LET parts == Split(response_text, FenceOpen) IN
    IF Len(parts) < 2 THEN PlanRaised("IndexError")
    ELSE LET plan_str == Join(Strip(Split(parts[2], Fence)[1]))
             plan == PlanLiteralEval(plan_str)
         IN  IF plan.exc # "" THEN PlanRaised(plan.exc)
             ELSE IF plan.val.type = "list" THEN PlanReturned(plan.val.items)
             ELSE PlanReturned(<<>>)

\* Planner.plan, from the try on, with its handlers
ParsePlan(response_text) ==
    LET tried == TryParsePlan(response_text) IN
    IF tried.exc # "" /\ PlannerCaught(tried.exc) THEN PlanReturned(<<>>) ELSE tried

\* ------------------------------------------------------- the tool registry

\* ToolExecutor: a set of entries, one per name; Unbound is tool_executor = None.
Unbound == [bound |-> FALSE, tools |-> {}]
Registry(tools) == [bound |-> TRUE, tools |-> tools]
Entry(name, func) == [name |-> name, func |-> func]

\* ToolExecutor.getTool: the callable, "" when the name is not registered
GetTool(te, name) ==
    IF \E e \in te.tools : e.name = name
    THEN (CHOOSE e \in te.tools : e.name = name).func
    ELSE ""

\* ToolExecutor.registerTool
RegisterTool(te, name, func) ==
    Registry({e \in te.tools : e.name # name} \cup {Entry(name, func)})

\* ToolExecutor.getAvailableTools, as the names it lists
GetAvailableTools(te) == {e.name : e \in te.tools}

\* What the caller passes as tool_executor: nothing, a registry with a Search
\* tool of its own, a registry with another tool only.
CallerRegistries ==
    {Unbound, Registry({Entry("Search", "caller_search")}), Registry({Entry("Calc", "calc")})}

\* A tool callable returns an observation or raises.
ToolOutcomes(func, input) ==
    {[raised |-> FALSE, obs |-> func \o "(" \o input \o ")"], [raised |-> TRUE, obs |-> ""]}

\* ------------------------------------------------------------------ state

VARIABLES
    repertoire,          \* the texts this run's engine answers a step with
    pc,                  \* where the program is: "new", "ready", "for", "while",
                         \* "call", "think", "done", "fault"
    mode,                \* "agent": PlanAndSolveAgent.run; "direct": Executor.execute alone
    given,               \* the tool_executor argument of the constructor
    tool_executor,       \* self.tool_executor
    max_tool_iterations, \* self.max_tool_iterations
    plan,                \* execute's plan
    i,                   \* the for loop's index, 0 before the first step
    history,             \* execute's history
    messages,            \* the step's conversation
    response_text,       \* the latest completion
    tool_iterations,     \* the step's iteration counter
    tool_name,           \* the name of the request last resolved
    tool_input,          \* its input
    tool_func,           \* the callable getTool found for it, "" for none
    observation,         \* the observation last obtained
    final_answer,        \* execute's final_answer
    returned,            \* what execute returned
    reported,            \* what run printed last
    exc,                 \* the exception that ended the run
    trace                \* every engine call and tool call made, in order

vars ==
    <<repertoire, pc, mode, given, tool_executor, max_tool_iterations, plan, i, history,
      messages, response_text, tool_iterations, tool_name, tool_input, tool_func, observation,
      final_answer, returned, reported, exc, trace>>

Question == "Q"

\* An engine call, with the completion taken from it in text.
Think(step, response) ==
    [ev |-> "think", step |-> step, absent |-> response.absent,
     text |-> Join(OrEmpty(response)), tool |-> "", func |-> "", input |-> "", raised |-> FALSE]

\* A call of a tool callable, with what it returned in text.
ToolCall(step, name, func, input, out) ==
    [ev |-> "tool", step |-> step, absent |-> FALSE, text |-> out.obs, tool |-> name,
     func |-> func, input |-> input, raised |-> out.raised]

\* execute is entered.
Enter == [ev |-> "execute", step |-> 0, absent |-> FALSE, text |-> "", tool |-> "",
          func |-> "", input |-> "", raised |-> FALSE]

NotReturned == [some |-> FALSE, value |-> ""]
Returned(value) == [some |-> TRUE, value |-> value]

NothingReported == [kind |-> "nothing", text |-> ""]
NoPlanReported == [kind |-> "no_plan", text |-> ""]
AnswerReported(text) == [kind |-> "answer", text |-> text]

Init ==
    /\ repertoire \in Repertoires
    /\ pc = "new"
    /\ mode = ""
    /\ given = Unbound
    /\ tool_executor = Unbound
    /\ max_tool_iterations = 0
    /\ plan = <<>>
    /\ i = 0
    /\ history = <<>>
    /\ messages = <<>>
    /\ response_text = ""
    /\ tool_iterations = 0
    /\ tool_name = ""
    /\ tool_input = ""
    /\ tool_func = ""
    /\ observation = ""
    /\ final_answer = ""
    /\ returned = NotReturned
    /\ reported = NothingReported
    /\ exc = ""
    /\ trace = <<>>

\* ----------------------------------------------------------- construction

\* The constructor registering the default whatever the registry holds.
AgentRegistryOverwrite(arg) ==
    RegisterTool(IF arg.bound THEN arg ELSE Registry({}), "Search", "search")

\* PlanAndSolveAgent.__init__: the registry the agent and its executor share
AgentRegistry(arg) ==
    LET te == IF arg.bound THEN arg ELSE Registry({}) IN
    IF GetTool(te, "Search") = "" THEN RegisterTool(te, "Search", "search") ELSE te

\* PlanAndSolveAgent(llm_client, tool_executor)
AgentInit ==
    /\ pc = "new"
    /\ \E arg \in CallerRegistries :
        /\ given' = arg
        /\ tool_executor' = AgentRegistry(arg)
    /\ max_tool_iterations' = DefaultMaxToolIterations
    /\ mode' = "agent"
    /\ pc' = "ready"
    /\ UNCHANGED <<repertoire, plan, i, history, messages, response_text, tool_iterations,
                   tool_name, tool_input, tool_func, observation, final_answer, returned,
                   reported, exc, trace>>

\* Executor(llm_client, tool_executor, max_tool_iterations)
ExecutorInit ==
    /\ pc = "new"
    /\ \E arg \in CallerRegistries, m \in 0..MaxIter :
        /\ given' = arg
        /\ tool_executor' = arg
        /\ max_tool_iterations' = m
    /\ mode' = "direct"
    /\ pc' = "ready"
    /\ UNCHANGED <<repertoire, plan, i, history, messages, response_text, tool_iterations,
                   tool_name, tool_input, tool_func, observation, final_answer, returned,
                   reported, exc, trace>>

\* ---------------------------------------------------------------- the run

\* run without the check of the plan.
NotPlanUnchecked(p) == FALSE

\* "if not plan" in run
NotPlan(p) == p = <<>>

\* PlanAndSolveAgent.run up to the call of execute: Planner.plan (an exception
\* that left it leaves run too), and the early return when the plan is empty.
RunPlan ==
    /\ pc = "ready"
    /\ mode = "agent"
    /\ \E response \in PlannerResponses :
        LET planned == ParsePlan(OrEmpty(response)) IN
        /\ plan' = planned.plan
        /\ exc' = planned.exc
        /\ IF planned.exc # ""
           THEN /\ pc' = "fault"
                /\ reported' = reported
                /\ trace' = Append(trace, Think(0, response))
           ELSE IF NotPlan(planned.plan)
           THEN /\ pc' = "done"
                /\ reported' = NoPlanReported
                /\ trace' = Append(trace, Think(0, response))
           ELSE /\ pc' = "for"
                /\ reported' = reported
                /\ trace' = trace \o <<Think(0, response), Enter>>
    /\ UNCHANGED <<repertoire, mode, given, tool_executor, max_tool_iterations, i, history,
                   messages, response_text, tool_iterations, tool_name, tool_input, tool_func,
                   observation, final_answer, returned>>

\* Executor.execute(question, plan) called on an executor of its own
Execute ==
    /\ pc = "ready"
    /\ mode = "direct"
    /\ \E p \in Plans : plan' = p
    /\ trace' = Append(trace, Enter)
    /\ pc' = "for"
    /\ UNCHANGED <<repertoire, mode, given, tool_executor, max_tool_iterations, i, history,
                   messages, response_text, tool_iterations, tool_name, tool_input, tool_func,
                   observation, final_answer, returned, reported, exc>>

\* The completions of the executor's steps that were tool requests.
RequestsSoFar ==
    Cardinality({k \in 1..Len(trace) :
        /\ trace[k].ev = "think"
        /\ trace[k].step > 0
        /\ ParseToolRequest(trace[k].text).some})

\* What think may answer to the executor now.
ExecutorThink ==
    {r \in Responses(repertoire) :
        ParseToolRequest(Join(OrEmpty(r))).some => RequestsSoFar < MaxToolRequests}

\* The choice between history and the placeholder the wrong way round.
HistoryOrNoneInverted(h) == IF h = <<>> THEN h ELSE <<[kind |-> "none"]>>

\* history if history else the placeholder
HistoryOrNone(h) == IF h # <<>> THEN h ELSE <<[kind |-> "none"]>>

\* tool_instructions
ToolInstructions(te) ==
    IF te.bound /\ te.tools # {}
    THEN [none |-> FALSE, names |-> GetAvailableTools(te)]
    ELSE [none |-> TRUE, names |-> {}]

\* EXECUTOR_PROMPT_TEMPLATE.format(...)
ExecutorPrompt(p, h, step, te) ==
    [kind |-> "prompt", question |-> Question, plan |-> p, history |-> HistoryOrNone(h),
     current_step |-> step, tool_instructions |-> ToolInstructions(te)]

User(content) == [role |-> "user", content |-> content]
Assistant(text) == [role |-> "assistant", content |-> [kind |-> "text", text |-> text]]
ToolOutput(name, obs) == [kind |-> "tool_output", tool |-> name, text |-> obs]

\* The terminal record with the step counted from 0.
ResultRecordFromZero(n, step, result) ==
    [kind |-> "result", i |-> n - 1, step |-> step, tool |-> "", text |-> result]

ToolRecord(n, step, name, obs) ==
    [kind |-> "tool", i |-> n, step |-> step, tool |-> name, text |-> obs]
ResultRecord(n, step, result) ==
    [kind |-> "result", i |-> n, step |-> step, tool |-> "", text |-> result]

\* The error without the tool's name.
ErrorObservationNameless(name) == "Error: tool is not registered."

\* The observation for a tool that is not registered.
ErrorObservation(name) == "Error: tool '" \o name \o "' is not registered."

\* The loop's condition with the budget off by one.
LoopGuardInclusive(te, iterations, max) == te.bound /\ iterations <= max

\* The loop's condition giving up one pass early.
LoopGuardShort(te, iterations, max) == te.bound /\ iterations + 1 < max

\* The loop's condition without the budget.
LoopGuardUnbudgeted(te, iterations, max) == te.bound

\* The loop's condition without the test of the registry.
LoopGuardAnyExecutor(te, iterations, max) == iterations < max

\* The condition of the while loop.
LoopGuard(te, iterations, max) == te.bound /\ iterations < max

\* The head of the for loop's body with the conversation made before the loop
\* and carried from step to step.
StepBeginCarrying ==
    /\ pc = "for"
    /\ i < Len(plan)
    /\ \E response \in ExecutorThink :
        LET step == plan[i + 1]
            prompt == ExecutorPrompt(plan, history, step, tool_executor)
            text == Join(OrEmpty(response))
        IN  /\ messages' = messages \o <<User(prompt), Assistant(text)>>
            /\ response_text' = text
            /\ trace' = Append(trace, Think(i + 1, response))
    /\ i' = i + 1
    /\ tool_iterations' = 0
    /\ pc' = "while"
    /\ UNCHANGED <<repertoire, mode, given, tool_executor, max_tool_iterations, plan, history,
                   tool_name, tool_input, tool_func, observation, final_answer, returned,
                   reported, exc>>

\* The head of the for loop's body with the counter set before the loop only.
StepBeginCounting ==
    /\ pc = "for"
    /\ i < Len(plan)
    /\ \E response \in ExecutorThink :
        LET step == plan[i + 1]
            prompt == ExecutorPrompt(plan, history, step, tool_executor)
            text == Join(OrEmpty(response))
        IN  /\ messages' = <<User(prompt), Assistant(text)>>
            /\ response_text' = text
            /\ trace' = Append(trace, Think(i + 1, response))
    /\ i' = i + 1
    /\ tool_iterations' = tool_iterations
    /\ pc' = "while"
    /\ UNCHANGED <<repertoire, mode, given, tool_executor, max_tool_iterations, plan, history,
                   tool_name, tool_input, tool_func, observation, final_answer, returned,
                   reported, exc>>

\* The head of the for loop's body: the prompt, the fresh conversation, the
\* first completion.
StepBegin ==
    /\ pc = "for"
    /\ i < Len(plan)
    /\ \E response \in ExecutorThink :
        LET step == plan[i + 1]
            prompt == ExecutorPrompt(plan, history, step, tool_executor)
            text == Join(OrEmpty(response))
        IN  /\ messages' = <<User(prompt), Assistant(text)>>
            /\ response_text' = text
            /\ trace' = Append(trace, Think(i + 1, response))
    /\ i' = i + 1
    /\ tool_iterations' = 0
    /\ pc' = "while"
    /\ UNCHANGED <<repertoire, mode, given, tool_executor, max_tool_iterations, plan, history,
                   tool_name, tool_input, tool_func, observation, final_answer, returned,
                   reported, exc>>

\* One pass of the while loop up to the call of the tool: the request is parsed
\* and the tool looked up; for a tool that is not registered the pass goes on to
\* the counter's increment, with the error as the observation.
ToolResolve ==
    /\ pc = "while"
    /\ LoopGuard(tool_executor, tool_iterations, max_tool_iterations)
    /\ LET tool_request == ParseToolRequest(response_text) IN
        /\ tool_request.exc = ""
        /\ tool_request.some
        /\ tool_name' = tool_request.tool
        /\ tool_input' = tool_request.input
        /\ tool_func' = GetTool(tool_executor, tool_request.tool)
        /\ IF GetTool(tool_executor, tool_request.tool) = ""
           THEN /\ observation' = ErrorObservation(tool_request.tool)
                /\ history' = Append(history, ToolRecord(i, plan[i], tool_request.tool,
                                                         ErrorObservation(tool_request.tool)))
                /\ tool_iterations' = tool_iterations + 1
                /\ pc' = "think"
           ELSE /\ pc' = "call"
                /\ UNCHANGED <<observation, history, tool_iterations>>
    /\ UNCHANGED <<repertoire, mode, given, tool_executor, max_tool_iterations, plan, i,
                   messages, response_text, final_answer, returned, reported, exc, trace>>

\* The call of the callable inside a handler that turns what it raises into an
\* observation.
ToolInvokeCaught ==
    /\ pc = "call"
    /\ \E out \in ToolOutcomes(tool_func, tool_input) :
        /\ trace' = Append(trace, ToolCall(i, tool_name, tool_func, tool_input, out))
        /\ observation' = IF out.raised THEN "Error: the tool failed." ELSE out.obs
        /\ history' = Append(history, ToolRecord(i, plan[i], tool_name, observation'))
    /\ tool_iterations' = tool_iterations + 1
    /\ pc' = "think"
    /\ UNCHANGED <<repertoire, mode, given, tool_executor, max_tool_iterations, plan, i,
                   messages, response_text, tool_name, tool_input, tool_func, final_answer,
                   returned, reported, exc>>

\* observation = tool_func(tool_input): the callable returns, and the pass goes
\* on to the counter's increment, or it raises, and nothing in execute or run
\* catches that.
ToolInvoke ==
    /\ pc = "call"
    /\ \E out \in ToolOutcomes(tool_func, tool_input) :
        /\ trace' = Append(trace, ToolCall(i, tool_name, tool_func, tool_input, out))
        /\ IF out.raised
           THEN /\ pc' = "fault"
                /\ exc' = "ToolError"
                /\ UNCHANGED <<observation, history, tool_iterations>>
           ELSE /\ observation' = out.obs
                /\ history' = Append(history, ToolRecord(i, plan[i], tool_name, out.obs))
                /\ tool_iterations' = tool_iterations + 1
                /\ pc' = "think"
                /\ exc' = exc
    /\ UNCHANGED <<repertoire, mode, given, tool_executor, max_tool_iterations, plan, i,
                   messages, response_text, tool_name, tool_input, tool_func, final_answer,
                   returned, reported>>

\* The rest of the pass: the observation goes to the conversation and the
\* engine answers it.
Rethink ==
    /\ pc = "think"
    /\ \E response \in ExecutorThink :
        LET text == Join(OrEmpty(response)) IN
        /\ messages' = messages \o <<User(ToolOutput(tool_name, observation)), Assistant(text)>>
        /\ response_text' = text
        /\ trace' = Append(trace, Think(i, response))
    /\ pc' = "while"
    /\ UNCHANGED <<repertoire, mode, given, tool_executor, max_tool_iterations, plan, i,
                   history, tool_iterations, tool_name, tool_input, tool_func, observation,
                   final_answer, returned, reported, exc>>

\* _parse_tool_request lets an exception through: it leaves execute, and run.
ParseFault ==
    /\ pc = "while"
    /\ LoopGuard(tool_executor, tool_iterations, max_tool_iterations)
    /\ ParseToolRequest(response_text).exc # ""
    /\ exc' = ParseToolRequest(response_text).exc
    /\ pc' = "fault"
    /\ UNCHANGED <<repertoire, mode, given, tool_executor, max_tool_iterations, plan, i,
                   history, messages, response_text, tool_iterations, tool_name, tool_input,
                   tool_func, observation, final_answer, returned, reported, trace>>

\* The while loop is over (its condition is false, or the break): the terminal
\* record, and final_answer.
LoopOver ==
    \/ ~LoopGuard(tool_executor, tool_iterations, max_tool_iterations)
    \/ /\ ParseToolRequest(response_text).exc = ""
       /\ ~ParseToolRequest(response_text).some

\* final_answer kept from the first step that set it.
FinalAnswerFirst(previous, result) == IF previous = "" THEN result ELSE previous

\* final_answer = response_text
FinalAnswer(previous, result) == result

\* The end of the step with history assigned, not added to.
StepEndAssigning ==
    /\ pc = "while"
    /\ LoopOver
    /\ history' = <<ResultRecord(i, plan[i], response_text)>>
    /\ final_answer' = FinalAnswer(final_answer, response_text)
    /\ pc' = "for"
    /\ UNCHANGED <<repertoire, mode, given, tool_executor, max_tool_iterations, plan, i,
                   messages, response_text, tool_iterations, tool_name, tool_input, tool_func,
                   observation, returned, reported, exc, trace>>

StepEnd ==
    /\ pc = "while"
    /\ LoopOver
    /\ history' = Append(history, ResultRecord(i, plan[i], response_text))
    /\ final_answer' = FinalAnswer(final_answer, response_text)
    /\ pc' = "for"
    /\ UNCHANGED <<repertoire, mode, given, tool_executor, max_tool_iterations, plan, i,
                   messages, response_text, tool_iterations, tool_name, tool_input, tool_func,
                   observation, returned, reported, exc, trace>>

\* The for loop is over: execute returns final_answer, which run prints.
ExecuteReturn ==
    /\ pc = "for"
    /\ i = Len(plan)
    /\ returned' = Returned(final_answer)
    /\ reported' = IF mode = "agent" THEN AnswerReported(final_answer) ELSE reported
    /\ pc' = "done"
    /\ UNCHANGED <<repertoire, mode, given, tool_executor, max_tool_iterations, plan, i,
                   history, messages, response_text, tool_iterations, tool_name, tool_input,
                   tool_func, observation, final_answer, exc, trace>>

Next ==
    \/ AgentInit
    \/ ExecutorInit
    \/ RunPlan
    \/ Execute
    \/ StepBegin
    \/ ToolResolve
    \/ ToolInvoke
    \/ Rethink
    \/ ParseFault
    \/ StepEnd
    \/ ExecuteReturn

Spec == Init /\ [][Next]_vars

\* The program runs on while it can: the interpreter takes the next step of run
\* or execute, and each call of the engine or of a tool comes back.  The engine
\* is the one that answers a step with an answer, a request for Search, the
\* text _parse_tool_request chokes on or nothing.
FairInit == Init /\ repertoire = CoreTexts \cup {T_ABSENT}
FairSpec == FairInit /\ [][Next]_vars /\ WF_vars(Next)

\* ------------------------------------------------- what the claims speak of

\* The engine calls made for step n (n = 0: the planner's), as places of trace.
Thinks(n) == {k \in DOMAIN trace : trace[k].ev = "think" /\ trace[k].step = n}

\* The calls of tool callables made for step n.
ToolCalls(n) == {k \in DOMAIN trace : trace[k].ev = "tool" /\ trace[k].step = n}

\* The tool records and the terminal records of step n, as places of history.
ToolRecords(n) == {k \in DOMAIN history : history[k].kind = "tool" /\ history[k].i = n}
ResultRecords(n) == {k \in DOMAIN history : history[k].kind = "result" /\ history[k].i = n}

\* The completions of step n, in order.
IsThinkOf(n, e) == e.ev = "think" /\ e.step = n
Completions(n) == SelectSeq(trace, LAMBDA e : IsThinkOf(n, e))

\* Step n has been begun; the processing of step n has ended, by the terminal
\* record or by an exception.
Begun(n) == 1 <= n /\ n <= i
Over(n) == Begun(n) /\ (n < i \/ pc \in {"for", "done", "fault"})

\* text is a tool request: a mapping with the keys "tool" and "input" whose
\* tool name is not blank.
IsRequest(text) == ParseToolRequest(text).some

\* ---------------------------------------------------------------------- C1

\* C1: for every step of the plan, the engine calls made while the step is
\* processed number at least 1 and at most max_tool_iterations + 1 (and none is
\* made for a step not yet begun).
C1_EngineCallsPerStep ==
    \A n \in 1..Len(plan) :
        IF Begun(n)
        THEN /\ Cardinality(Thinks(n)) >= 1
             /\ Cardinality(Thinks(n)) <= max_tool_iterations + 1
        ELSE Thinks(n) = {}

\* A finished run with a step of one engine call and a step that used the whole
\* budget, max_tool_iterations + 1 calls.
C1_Witness ==
    /\ pc = "done"
    /\ max_tool_iterations >= 1
    /\ \E n, m \in 1..Len(plan) :
        /\ Cardinality(Thinks(n)) = max_tool_iterations + 1
        /\ Cardinality(Thinks(m)) = 1

\* ---------------------------------------------------------------------- C2

\* Step n got its terminal record, and each of its completions was a tool request.
AllRequests(n) ==
    /\ ResultRecords(n) # {}
    /\ \A k \in DOMAIN Completions(n) : IsRequest(Completions(n)[k].text)

\* The budget was used up and no more: max_tool_iterations tool resolutions,
\* max_tool_iterations + 1 engine calls, and the last completion, a request never
\* carried out, as the step's result.
Exhausted(n) ==
    /\ Cardinality(ToolRecords(n)) = max_tool_iterations
    /\ Cardinality(Thinks(n)) = max_tool_iterations + 1
    /\ \A r \in ResultRecords(n) :
        /\ history[r].text = Completions(n)[Len(Completions(n))].text
        /\ \A t \in ToolRecords(n) : t < r

\* C2, as claimed: a step all of whose completions are tool requests ends after
\* exactly max_tool_iterations tool resolutions and max_tool_iterations + 1
\* engine calls, its last completion being its result.
C2_Original == \A n \in 1..Len(plan) : AllRequests(n) => Exhausted(n)

\* C2, amended: the same of an executor that has a tool registry bound.
C2_ExhaustedWhenBound ==
    tool_executor.bound => \A n \in 1..Len(plan) : AllRequests(n) => Exhausted(n)

\* A finished run of an executor with a registry and a budget of two in which a
\* step asked for a tool in each of its three completions.
C2_Witness ==
    /\ pc = "done"
    /\ tool_executor.bound
    /\ max_tool_iterations = 2
    /\ \E n \in 1..Len(plan) : AllRequests(n) /\ Len(Completions(n)) = 3

\* ---------------------------------------------------------------------- C3

\* The last completion of step n so far.
LastCompletion(n) == Completions(n)[Len(Completions(n))].text

\* C3, as claimed: once the loop has looked at a latest completion that is no
\* tool request (empty, no valid syntax, no mapping, a key missing, a blank tool
\* name), the step has its terminal record with that completion, verbatim, as
\* the result, and no tool was resolved for it; and a step whose first
\* completion is no tool request has exactly one engine call.
C3_NoRequestEndsStep ==
    \A n \in 1..Len(plan) :
        Begun(n) =>
            /\ (Over(n) /\ ~IsRequest(LastCompletion(n))) =>
                /\ ResultRecords(n) # {}
                /\ \A r \in ResultRecords(n) : history[r].text = LastCompletion(n)
                /\ Cardinality(ToolRecords(n)) = Len(Completions(n)) - 1
            /\ ~IsRequest(Completions(n)[1].text) => Len(Completions(n)) = 1

\* ---------------------------------------------------------------------- C4

\* The first completion of step n asks for a registered tool and the second,
\* which the loop has looked at, is no tool request.
OneToolThenAnswer(n) ==
    /\ Over(n)
    /\ Len(Completions(n)) >= 2
    /\ IsRequest(Completions(n)[1].text)
    /\ GetTool(tool_executor, ParseToolRequest(Completions(n)[1].text).tool) # ""
    /\ ~IsRequest(Completions(n)[2].text)

\* Step n made two engine calls and, between them, one call of the requested
\* tool's callable with the requested input; its result is the second
\* completion; history holds the tool record, with the tool's name and what the
\* callable returned, before the terminal record.
OneToolCallBetween(n) ==
    LET request == ParseToolRequest(Completions(n)[1].text) IN
    /\ Cardinality(Thinks(n)) = 2
    /\ Cardinality(ToolCalls(n)) = 1
    /\ \A t \in ToolCalls(n) :
        /\ trace[t].func = GetTool(tool_executor, request.tool)
        /\ trace[t].input = request.input
        /\ \E a, b \in Thinks(n) : a < t /\ t < b
        /\ ResultRecords(n) # {}
        /\ \A r \in ResultRecords(n) :
            /\ history[r].text = Completions(n)[2].text
            /\ \E h \in ToolRecords(n) :
                /\ h < r
                /\ history[h].tool = request.tool
                /\ history[h].text = trace[t].text

\* Every call of a tool callable answers the completion right before it: a
\* request that names the callable's tool and carries the call's input.
CalledOnRequestOnly ==
    \A t \in DOMAIN trace :
        trace[t].ev = "tool" =>
            /\ t > 1
            /\ trace[t - 1].ev = "think"
            /\ trace[t - 1].step = trace[t].step
            /\ IsRequest(trace[t - 1].text)
            /\ ParseToolRequest(trace[t - 1].text).tool = trace[t].tool
            /\ ParseToolRequest(trace[t - 1].text).input = trace[t].input
            /\ GetTool(tool_executor, trace[t].tool) = trace[t].func

\* C4, as claimed: a step whose first completion asks for a registered tool and
\* whose second is no tool request makes exactly two engine calls with one tool
\* call between them, has the second completion as its result and the tool
\* record before its terminal record; and no callable is called but for a
\* parsed request.
C4_OneToolThenAnswer ==
    /\ \A n \in 1..Len(plan) : OneToolThenAnswer(n) => OneToolCallBetween(n)
    /\ CalledOnRequestOnly

\* ---------------------------------------------------------------------- C5

\* The loop is about to take up a completion that asks for a tool the registry
\* does not hold.
UnregisteredRequest ==
    /\ pc = "while"
    /\ tool_executor.bound
    /\ tool_iterations < max_tool_iterations
    /\ IsRequest(response_text)
    /\ GetTool(tool_executor, ParseToolRequest(response_text).tool) = ""

\* The message for a tool that is not registered names the tool.
NamesUnregistered(text, name) == text = "Error: tool '" \o name \o "' is not registered."

\* C5: when the loop takes up a request for a tool that is not registered, it
\* calls no callable, makes the error message naming the tool the observation,
\* adds one to the iteration counter, appends the tool record with that
\* observation to history and goes on (it does not leave the loop); the
\* observation then goes to the conversation as a user turn and the engine is
\* called again.
C5_UnregisteredTool ==
    [][/\ UnregisteredRequest =>
            /\ pc' = "think"
            /\ trace' = trace
            /\ NamesUnregistered(observation', ParseToolRequest(response_text).tool)
            /\ tool_iterations' = tool_iterations + 1
            /\ Len(history') = Len(history) + 1
            /\ SubSeq(history', 1, Len(history)) = history
            /\ history'[Len(history')].kind = "tool"
            /\ history'[Len(history')].i = i
            /\ history'[Len(history')].tool = ParseToolRequest(response_text).tool
            /\ history'[Len(history')].text = observation'
       /\ pc = "think" =>
            /\ pc' = "while"
            /\ Len(messages') = Len(messages) + 2
            /\ SubSeq(messages', 1, Len(messages)) = messages
            /\ messages'[Len(messages) + 1].role = "user"
            /\ messages'[Len(messages) + 1].content.text = observation
            /\ messages'[Len(messages) + 2].role = "assistant"
            /\ Len(trace') = Len(trace) + 1
            /\ trace'[Len(trace')].ev = "think"
            /\ trace'[Len(trace')].step = i]_vars

\* The loop has fed the error for the unregistered tool Foo back to the engine
\* and got the next completion, no callable having been called in the step.
C5_Witness ==
    /\ pc = "while"
    /\ tool_iterations = 1
    /\ ToolCalls(i) = {}
    /\ Len(messages) = 4
    /\ NamesUnregistered(messages[3].content.text, "Foo")
    /\ \E h \in ToolRecords(i) : NamesUnregistered(history[h].text, "Foo")
    /\ Cardinality(Thinks(i)) = 2

\* ---------------------------------------------------------------------- C6

\* execute has been entered; the run is over.
Entered == \E k \in DOMAIN trace : trace[k].ev = "execute"
RunOver == pc \in {"done", "fault"}

\* C6, as claimed: no step's failure aborts the run; whatever the engine and the
\* tools do, a run that entered execute ends with execute returned and a
\* terminal record, a result, for each step 1..N of the plan.
C6_EveryStepResolves ==
    (Entered /\ RunOver) =>
        /\ pc = "done"
        /\ returned.some
        /\ \A n \in 1..Len(plan) : Cardinality(ResultRecords(n)) = 1

\* ---------------------------------------------------------------------- C7

\* C7: once a tool's callable has raised, the run is over with that exception
\* (no handler of execute or run took it: execute has not returned, run has
\* printed no answer), the raising call is the last call made, to the engine or
\* to a tool, and neither the step it was made in nor a later step has a terminal
\* record.
C7_ToolFaultPropagates ==
    \A t \in DOMAIN trace :
        (trace[t].ev = "tool" /\ trace[t].raised) =>
            /\ pc = "fault"
            /\ exc = "ToolError"
            /\ t = Len(trace)
            /\ ~returned.some
            /\ reported = NothingReported
            /\ \A r \in ResultRecords(trace[t].step - 1) : final_answer = history[r].text
            /\ \A n \in trace[t].step..Len(plan) : ResultRecords(n) = {}
            /\ ~ENABLED Next

\* The agent's run ended by a tool raising in the second step of its plan, the
\* first step having got its result.
C7_Witness ==
    /\ pc = "fault"
    /\ exc = "ToolError"
    /\ mode = "agent"
    /\ i = 2
    /\ ResultRecords(1) # {}
    /\ trace[Len(trace)].raised

\* ---------------------------------------------------------------------- C8

\* The engine call at place k of trace returned nothing, or the empty text.
EmptyResponse(k) == trace[k].ev = "think" /\ (trace[k].absent \/ trace[k].text = "")

\* C8: an absent or empty engine response is the empty string to the program
\* and fails no run.  To the planner it is an empty plan, and run ends reporting
\* that.  To the executor, at whichever engine call of a step it comes, it is
\* the step's last completion: the loop ends on it (no tool is resolved, no
\* exception raised), the step's result is the empty string, and the run goes on.
C8_EmptyResponse ==
    /\ \A k \in Thinks(0) :
        EmptyResponse(k) =>
            /\ plan = <<>>
            /\ pc = "done"
            /\ reported = NoPlanReported
    /\ \A n \in 1..Len(plan) : \A k \in Thinks(n) :
        EmptyResponse(k) =>
            /\ \A j \in Thinks(n) : j <= k
            /\ n = i => pc \in {"while", "for", "done"}
            /\ (n = i /\ pc = "while") =>
                /\ response_text = ""
                /\ ENABLED StepEnd
                /\ ~ENABLED ToolResolve
                /\ ~ENABLED ParseFault
            /\ Over(n) =>
                /\ Cardinality(ResultRecords(n)) = 1
                /\ \A r \in ResultRecords(n) : history[r].text = ""

\* A finished run of two steps in which the engine returned nothing at the
\* second engine call of the first step, after a tool's observation.
C8_Witness ==
    /\ pc = "done"
    /\ Len(plan) = 2
    /\ Cardinality(Thinks(1)) = 2
    /\ \E k \in Thinks(1) : trace[k].absent
    /\ ResultRecords(2) # {}

\* ---------------------------------------------------------------------- C9

\* The places of trace where execute is entered.
Entries == {k \in DOMAIN trace : trace[k].ev = "execute"}

\* C9: in a run of the agent, execute is entered if and only if the planner
\* returned a plan that is not empty, then once only and after the planner's one
\* engine call; a run whose plan is empty ends having made that one engine call,
\* no tool call and no second planning.
C9_ExecuteIffPlan ==
    mode = "agent" =>
        /\ Cardinality(Entries) <= 1
        /\ Cardinality(Thinks(0)) <= 1
        /\ Entries # {} <=> (Thinks(0) # {} /\ plan # <<>>)
        /\ Entries # {} => (Thinks(0) = {1} /\ Entries = {2})
        /\ (Thinks(0) # {} /\ plan = <<>>) =>
            /\ pc = "done"
            /\ Len(trace) = 1
            /\ ~returned.some
            /\ reported = NoPlanReported
            /\ ~ENABLED Next

\* The agent's run ended on an empty plan, parsed from a completion that was
\* not empty.
C9_Witness ==
    /\ mode = "agent"
    /\ pc = "done"
    /\ plan = <<>>
    /\ Len(trace) = 1
    /\ trace[1].text # ""

\* --------------------------------------------------------------------- C10

\* C10: what execute returns is the result of the plan's last step, the last
\* completion got while step N was processed (the empty string for an empty
\* plan), and it is what run prints as the answer.
C10_FinalAnswer ==
    /\ returned.some =>
        /\ returned.value = (IF plan = <<>> THEN "" ELSE LastCompletion(Len(plan)))
        /\ plan # <<>> => \A r \in ResultRecords(Len(plan)) : history[r].text = returned.value
        /\ mode = "agent" => reported = AnswerReported(returned.value)
    /\ reported.kind = "answer" => returned.some

\* The agent's run of a plan of two steps whose results differ, the second one
\* found after a tool resolution, has ended.
C10_Witness ==
    /\ mode = "agent"
    /\ pc = "done"
    /\ Len(plan) = 2
    /\ returned.some
    /\ Cardinality(Thinks(2)) = 2
    /\ LastCompletion(1) # LastCompletion(2)
    /\ LastCompletion(1) # ""

\* --------------------------------------------------------------------- C11

\* The text of the response whose fenced block holds the list literal of plan p.
WellFormedResponse(p) == Join(Fenced(ListLiteral(p)))

\* C11, as claimed: whenever the planner's engine call answered with a response
\* whose fenced block holds a well-formed list-of-strings literal, the plan that
\* Planner.plan returned is the sequence the literal denotes: the same elements
\* in the same order, none added, none dropped.
C11_PlanAsWritten ==
    \A k \in Thinks(0) : \A p \in LiteralPlans :
        trace[k].text = WellFormedResponse(p) => (pc # "fault" /\ plan = p)

\* --------------------------------------------------------------------- C12

\* The responses with no opening fence marker in them.
NoFenceOpen ==
    {r \in PlannerResponses : \A j \in DOMAIN OrEmpty(r) : OrEmpty(r)[j] # FenceOpen}

\* Fenced content that is no parsable literal; fenced content that is a literal
\* but no list.
Unparsable == {P_MALFORMED, T_UNHASHABLE}
NotAList == {P_STRING}

\* C12: no exception leaves Planner.plan, whatever the engine answered, and run
\* gets a sequence from it; the sequence is empty when the response has no
\* opening fence marker, when the fenced content is no parsable literal and when
\* the literal is not a list.
C12_PlannerNeverRaises ==
    \A k \in Thinks(0) :
        /\ pc = "fault" => Entries # {}
        /\ exc \in {"", "TypeError", "ToolError"}
        /\ plan \in LiteralPlans
        /\ \A r \in NoFenceOpen : trace[k].text = Join(OrEmpty(r)) => plan = <<>>
        /\ \A b \in Unparsable \cup NotAList : trace[k].text = Join(Fenced(b)) => plan = <<>>

\* The agent's run ended on the empty plan after a response whose fenced content
\* made the literal parser raise an exception the first handler does not name.
C12_Witness ==
    /\ mode = "agent"
    /\ pc = "done"
    /\ plan = <<>>
    /\ reported = NoPlanReported
    /\ trace[1].text = Join(Fenced(T_UNHASHABLE))

\* --------------------------------------------------------------------- C13

\* The agent has been constructed.
Constructed == mode = "agent" /\ pc # "new"

\* C13: once the agent is constructed, its registry holds a tool named "Search":
\* the caller's, left as it was, if the caller had registered one, else the
\* default, added; every entry of the caller's registry is still there,
\* unchanged, and nothing but the default was added; and from then on to the end
\* of run no step changes the registry.
C13_SearchRegistered ==
    /\ [](Constructed =>
            /\ tool_executor.bound
            /\ GetTool(tool_executor, "Search") # ""
            /\ GetTool(given, "Search") # "" => tool_executor.tools = given.tools
            /\ GetTool(given, "Search") = "" =>
                    tool_executor.tools = given.tools \cup {Entry("Search", "search")}
            /\ Cardinality({e \in tool_executor.tools : e.name = "Search"}) = 1)
    /\ [][Constructed => tool_executor' = tool_executor /\ given' = given]_vars

\* The agent, given a registry with a Search tool of the caller's, has finished
\* a run in which that tool was called.
C13_Witness ==
    /\ mode = "agent"
    /\ pc = "done"
    /\ returned.some
    /\ GetTool(given, "Search") = "caller_search"
    /\ \E t \in DOMAIN trace : trace[t].ev = "tool" /\ trace[t].func = "caller_search"

\* --------------------------------------------------------------------- C14

\* C14: history is append-only: every step of the program leaves history as it
\* is or adds records at its end; the value before the step is a prefix of the
\* value after it, so no record is altered or removed and the length never
\* decreases.
C14_HistoryAppendOnly ==
    [][/\ Len(history') >= Len(history)
       /\ SubSeq(history', 1, Len(history)) = history]_vars

\* execute has returned from a plan of two steps with tool resolutions in both:
\* history grew by tool records and terminal records in turn.
C14_Witness ==
    /\ pc = "done"
    /\ returned.some
    /\ Len(plan) = 2
    /\ ToolRecords(1) # {}
    /\ ToolRecords(2) # {}
    /\ Len(history) >= 4

\* --------------------------------------------------------------------- C15

\* The terminal records of history, in order; the tool records of step n, in order.
IsResult(r) == r.kind = "result"
Results == SelectSeq(history, IsResult)
ToolRecordsOf(n) == SelectSeq(history, LAMBDA r : r.kind = "tool" /\ r.i = n)

\* The place in trace of the j-th engine call of step n.
ThinkAt(n, j) == CHOOSE a \in Thinks(n) : Cardinality({b \in Thinks(n) : b <= a}) = j

\* The tool record is the one of the resolution of the j-th completion of step n:
\* it has the step's index and text, the tool the completion asked for and, as
\* the observation, what the callable called right after that completion
\* returned, or the error when the tool is not registered.
RecordOfResolution(r, n, j) ==
    LET request == ParseToolRequest(trace[ThinkAt(n, j)].text) IN
    /\ r.i = n
    /\ r.step = plan[n]
    /\ request.some
    /\ r.tool = request.tool
    /\ IF GetTool(tool_executor, request.tool) = ""
       THEN NamesUnregistered(r.text, request.tool)
       ELSE /\ trace[ThinkAt(n, j) + 1].ev = "tool"
            /\ trace[ThinkAt(n, j) + 1].tool = r.tool
            /\ ~trace[ThinkAt(n, j) + 1].raised
            /\ r.text = trace[ThinkAt(n, j) + 1].text

\* C15: when execute has returned, history holds exactly one terminal record per
\* step of the plan, in the order of the steps, with the step's index, its text
\* and its result; the tool records of step n, one per tool resolution of the step
\* and in the order of the resolutions, with the tool's name and the observation,
\* all lie after the terminal record of step n - 1 and before the one of step n.
C15_HistoryLayout ==
    returned.some =>
        /\ Len(Results) = Len(plan)
        /\ \A n \in 1..Len(plan) :
            /\ Results[n].i = n
            /\ Results[n].step = plan[n]
            /\ Results[n].text = LastCompletion(n)
            /\ Len(ToolRecordsOf(n)) = Len(Completions(n)) - 1
            /\ \A j \in 1..Len(ToolRecordsOf(n)) : RecordOfResolution(ToolRecordsOf(n)[j], n, j)
            /\ \A h \in ToolRecords(n) :
                /\ \A r \in ResultRecords(n) : h < r
                /\ \A r \in ResultRecords(n - 1) : r < h
        /\ \A h \in DOMAIN history : history[h].i \in 1..Len(plan)

\* execute has returned from a plan of two steps, the first with two tool
\* resolutions (one of a tool that is not registered), the second with one.
C15_Witness ==
    /\ pc = "done"
    /\ returned.some
    /\ Len(plan) = 2
    /\ Cardinality(ToolRecords(1)) = 2
    /\ \E h \in ToolRecords(1) : NamesUnregistered(history[h].text, "Foo")
    /\ \E h \in ToolRecords(1) : ~NamesUnregistered(history[h].text, history[h].tool)
    /\ Cardinality(ToolRecords(2)) = 1

\* --------------------------------------------------------------------- C16

\* The records of the steps before step n, as history holds them.
RecordsBefore(n) == SelectSeq(history, LAMBDA r : r.i < n)

\* The prompt of the step being processed: the first message of its conversation.
Prompt == messages[1].content

\* C16: the steps are processed in the order of the plan and one at a time: the
\* engine calls come in the order of their steps, and step n + 1 has an engine
\* call only once step n has its terminal record; the history in the prompt of
\* step n + 1 is made of the records, tool records and terminal records, of the
\* steps 1..n, all of them and in their order, with nothing of step n + 1; the
\* prompt of step 1 has the placeholder in its place.
C16_StepsInOrder ==
    /\ \A a, b \in DOMAIN trace : a < b => trace[a].step <= trace[b].step
    /\ \A n \in 1..Len(plan) :
        Thinks(n) # {} => \A m \in 1..(n - 1) : Cardinality(ResultRecords(m)) = 1
    /\ i >= 1 =>
        /\ Prompt.current_step = plan[i]
        /\ \A m \in 1..(i - 1) : ResultRecords(m) # {}
        /\ IF i = 1
           THEN Prompt.history = <<[kind |-> "none"]>>
           ELSE /\ Prompt.history = RecordsBefore(i)
                /\ \A m \in 1..(i - 1) : \A h \in ToolRecords(m) \cup ResultRecords(m) :
                       \E q \in DOMAIN Prompt.history : Prompt.history[q] = history[h]
                /\ \A q \in DOMAIN Prompt.history : Prompt.history[q].i < i

\* The second step is being processed after a tool resolution of its own, with
\* the tool record and the terminal record of the first step in its prompt.
C16_Witness ==
    /\ i = 2
    /\ pc = "while"
    /\ ToolRecords(2) # {}
    /\ Len(Prompt.history) = 2
    /\ Prompt.history[1].kind = "tool"
    /\ Prompt.history[2].kind = "result"

\* --------------------------------------------------------------------- C17

\* C17: the conversation belongs to the step being processed alone.  When a
\* step begins it is made anew of one user turn, the step's prompt, which is
\* all the first engine call sees; from then on it is, in turn, the completions
\* of this step's engine calls as assistant turns and the observations of this
\* step's tool resolutions as user turns, and nothing else, so nothing of an
\* earlier step's conversation is in it; the roles alternate from user on, and
\* each engine call is made on a conversation that ends in a user turn.
C17_FreshConversation ==
    /\ [](i >= 1 =>
            /\ Len(messages) = 2 * Len(Completions(i))
            /\ messages[1] = User(ExecutorPrompt(plan, RecordsBefore(i), plan[i], tool_executor))
            /\ \A j \in DOMAIN messages :
                   messages[j].role = (IF j % 2 = 1 THEN "user" ELSE "assistant")
            /\ \A j \in 1..Len(Completions(i)) :
                   messages[2 * j] = Assistant(Completions(i)[j].text)
            /\ \A j \in 2..Len(Completions(i)) :
                   messages[2 * j - 1] =
                       User(ToolOutput(ToolRecordsOf(i)[j - 1].tool, ToolRecordsOf(i)[j - 1].text)))
    /\ [][/\ i' # i => Len(messages') = 2 /\ messages'[1].content.current_step = plan[i']
          /\ (trace' # trace /\ trace'[Len(trace')].ev = "think"
                /\ trace'[Len(trace')].step >= 1) =>
                    /\ messages'[Len(messages')] = Assistant(trace'[Len(trace')].text)
                    /\ messages'[Len(messages') - 1].role = "user"
                    /\ i' = i => SubSeq(messages', 1, Len(messages)) = messages]_vars

\* The second step is being processed, after a first step whose conversation
\* had grown to four messages, and has had its first completion only.
C17_Witness ==
    /\ i = 2
    /\ pc = "while"
    /\ Cardinality(Thinks(1)) = 2
    /\ Len(messages) = 2
    /\ messages[1].content.current_step = plan[2]

\* --------------------------------------------------------------------- C18

\* C18: the iteration counter counts the tool resolutions of the step being
\* processed, and of no earlier step: it is the number of this step's tool
\* records, 0 when the step begins whatever the steps before it used; so while
\* this step has resolved fewer than max_tool_iterations tools, the loop's
\* condition holds and a completion that asks for a tool is not the step's end.
C18_CounterPerStep ==
    /\ i >= 1 => tool_iterations = Cardinality(ToolRecords(i))
    /\ tool_iterations <= max_tool_iterations
    /\ (/\ pc = "while"
        /\ tool_executor.bound
        /\ Cardinality(ToolRecords(i)) < max_tool_iterations
        /\ IsRequest(response_text)) =>
            /\ LoopGuard(tool_executor, tool_iterations, max_tool_iterations)
            /\ ~LoopOver

\* A step that used up its budget was followed by a step that did so too.
C18_Witness ==
    /\ i = 2
    /\ max_tool_iterations >= 1
    /\ Cardinality(ToolRecords(1)) = max_tool_iterations
    /\ IsRequest(LastCompletion(1))
    /\ Cardinality(ToolRecords(2)) = max_tool_iterations

\* --------------------------------------------------------------------- C19

\* All the engine calls made; all the tool resolutions made.
EngineCalls == {k \in DOMAIN trace : trace[k].ev = "think"}
Resolutions == {h \in DOMAIN history : history[h].kind = "tool"}

\* C19: every run ends, whatever the engine answers (a tool request each time
\* included); and at no point has a run of the agent made more than
\* 1 + N * (max_tool_iterations + 1) engine calls (an executor's run alone, which
\* has no planning call, N * (max_tool_iterations + 1)) or more than
\* N * max_tool_iterations tool resolutions, N being the length of the plan.
C19_Terminates ==
    /\ <>RunOver
    /\ [](/\ Cardinality(EngineCalls) <=
               (IF mode = "agent" THEN 1 ELSE 0) + Len(plan) * (max_tool_iterations + 1)
          /\ Cardinality(Resolutions) <= Len(plan) * max_tool_iterations)

\* A run of one step has ended with every completion a tool request: the bounds
\* are met, max_tool_iterations + 1 engine calls and max_tool_iterations
\* resolutions.
C19_Witness ==
    /\ pc = "done"
    /\ returned.some
    /\ Len(plan) = 1
    /\ max_tool_iterations = 2
    /\ Cardinality(EngineCalls) = 3
    /\ Cardinality(Resolutions) = 2
    /\ \A k \in EngineCalls : IsRequest(trace[k].text)

\* --------------------------------------------------------------------- C20

\* C20: an executor with no tool registry never enters the loop: each step it
\* has begun has made exactly one engine call, no tool was resolved (no callable
\* called, no error observation made, no tool record in history, no request
\* parsed, so no exception from parsing), and each step that is over has that
\* one completion, a tool request or not, unchanged as its result.
C20_NoRegistryNoLoop ==
    (pc # "new" /\ ~tool_executor.bound) =>
        /\ pc # "fault"
        /\ tool_iterations = 0
        /\ observation = ""
        /\ \A t \in DOMAIN trace : trace[t].ev # "tool"
        /\ \A h \in DOMAIN history : history[h].kind = "result"
        /\ \A n \in 1..Len(plan) :
            /\ Begun(n) => Cardinality(Thinks(n)) = 1
            /\ Over(n) =>
                /\ Cardinality(ResultRecords(n)) = 1
                /\ \A r \in ResultRecords(n) : \A k \in Thinks(n) :
                       history[r].text = trace[k].text
        /\ pc = "while" => (ENABLED StepEnd /\ ~ENABLED ToolResolve /\ ~ENABLED ParseFault)

\* An executor with no registry and a budget of two has returned, as the result
\* of the last step, the tool request the engine answered with.
C20_Witness ==
    /\ pc = "done"
    /\ ~tool_executor.bound
    /\ max_tool_iterations = 2
    /\ Len(plan) = 2
    /\ returned = Returned(T_SEARCH)
    /\ \E k \in Thinks(1) : trace[k].text = T_UNHASHABLE

====
